---- MODULE Spec2Model ----
(***************************************************************************)
(* Model of the colorbleed-config publish plug-ins:                        *)
(*   - IntegrateAsset (plugins/publish/integrate.py): register, integrate, *)
(*     copy_file, get_subset, create_version, run by one or two publishing *)
(*     sessions against one shared database and one shared library disk;   *)
(*   - ValidateNodeIdsUnique (plugins/maya/publish/                        *)
(*     validate_node_ids_unique.py): get_invalid and process.              *)
(* Strings are sequences of one-character strings, so that splitext,       *)
(* dirname, join and str.format are computed character by character.       *)
(***************************************************************************)
EXTENDS Integers, Sequences, FiniteSets, TLC

\* ---------------------------------------------------------------- state

VARIABLES
    docs,       \* the project's collection: documents in insertion order
    template_publish,  \* project["config"]["template"]["publish"]
    dirs,       \* directories that exist under the library root
    library,    \* published files: destination path -> the source copied there
    staging,    \* staging directories on disk: path -> os.listdir of it
    context,    \* per session: context.data["results"]
    instance,   \* per session: instance.data
    locals,     \* per session: the local variables of register and integrate
    pc,         \* per session: the statement process is at
    raised,     \* per session: the exception that left process, "" if none
    members,    \* the validated instance: the id of each member, in member order
    invalid,    \* the list get_invalid returned
    vpc         \* the validator's position

vars == <<docs, template_publish, dirs, library, staging, context, instance, locals, pc,
          raised, members, invalid, vpc>>

validatorVars == <<members, invalid, vpc>>

diskVars == <<dirs, library, staging>>

\* ------------------------------------------------------------------ bounds

\* Highest number of version documents a subset holds before the publish.
MaxExisting == 2

\* Longest file name enumerated for the staging directory of SpecRegister.
MaxNameLen == 3

\* Most members of an instance handed to the validator.
MaxMembers == 4

\* --------------------------------------------------------- string helpers

None == <<>>

Range(s) == {s[k] : k \in 1..Len(s)}

RECURSIVE Concat(_)
\* "".join(parts)
Concat(parts) ==
    IF parts = <<>> THEN <<>> ELSE Head(parts) \o Concat(Tail(parts))

\* p.rfind(ch), 1-based; 0 when ch does not occur (Python's -1).
RFind(p, ch) ==
    LET hits == {k \in 1..Len(p) : p[k] = ch}
    IN  IF hits = {} THEN 0 ELSE CHOOSE k \in hits : \A j \in hits : j <= k

\* p[:k] and p[k:] for a 1-based position k of the first character of the tail
Before(p, k) == SubSeq(p, 1, k - 1)

From(p, k) == SubSeq(p, k, Len(p))

\* os.path.splitext(p): the extension starts at the last dot of the last path
\* component, unless only dots precede it in that component.
Splitext(p) ==
    LET sepIndex == RFind(p, "/")
        dotIndex == RFind(p, ".")
    IN  IF /\ dotIndex > sepIndex
           /\ \E k \in (sepIndex + 1)..(dotIndex - 1) : p[k] # "."
        THEN <<Before(p, dotIndex), From(p, dotIndex)>>
        ELSE <<p, <<>>>>

RECURSIVE RStripSep(_)
\* head.rstrip("/")
RStripSep(p) ==
    IF p # <<>> /\ p[Len(p)] = "/" THEN RStripSep(Before(p, Len(p))) ELSE p

\* os.path.dirname(p)
Dirname(p) ==
    LET head == Before(p, RFind(p, "/") + 1)
    IN  IF head # <<>> /\ \E k \in 1..Len(head) : head[k] # "/"
        THEN RStripSep(head)
        ELSE head

\* os.path.join(a, b)
Join(a, b) ==
    IF b # <<>> /\ b[1] = "/" THEN b
    ELSE IF a = <<>> \/ a[Len(a)] = "/" THEN a \o b
    ELSE a \o <<"/">> \o b

Digit(d) == <<"0", "1", "2", "3", "4", "5", "6", "7", "8", "9">>[d + 1]

RECURSIVE Str(_)
\* str(n) of a natural number
Str(n) == IF n < 10 THEN <<Digit(n)>> ELSE Str(n \div 10) \o <<Digit(n % 10)>>

RECURSIVE PadLeft(_, _)
\* format(value, "0>width"): zero-filled, right-aligned
PadLeft(s, width) == IF Len(s) >= width THEN s ELSE PadLeft(<<"0">> \o s, width)

\* ------------------------------------------------------ publish templates

Lit(text) == [kind |-> "lit", text |-> text, field |-> "", width |-> 0]

Field(name, width) == [kind |-> "field", text |-> <<>>, field |-> name, width |-> width]

\* "{root}/{project}/{silo}/{asset}/publish/{subset}/v{version:0>3}/"
TemplateHead ==
    << Field("root", 0), Lit(<<"/">>), Field("project", 0), Lit(<<"/">>),
       Field("silo", 0), Lit(<<"/">>), Field("asset", 0),
       Lit(<<"/", "p", "u", "b", "l", "i", "s", "h", "/">>),
       Field("subset", 0), Lit(<<"/", "v">>), Field("version", 3), Lit(<<"/">>) >>

\* ".../{subset}.{representation}": the representation names the file
TemplateFile ==
    TemplateHead \o << Field("subset", 0), Lit(<<".">>), Field("representation", 0) >>

\* ".../{representation}/{subset}": the representation names a directory
TemplateDir ==
    TemplateHead \o << Field("representation", 0), Lit(<<"/">>), Field("subset", 0) >>

Templates == {TemplateFile, TemplateDir}

\* The text format() substitutes for one replacement field: str() of the value
FieldText(data, field) ==
    IF field = "version" THEN Str(data.version) ELSE data[field]

\* template_publish.format(**data)
Format(fmt, data) ==
    Concat([k \in 1..Len(fmt) |->
              IF fmt[k].kind = "lit"
              THEN fmt[k].text
              ELSE PadLeft(FieldText(data, fmt[k].field), fmt[k].width)])

\* ------------------------------------------------- environment and inputs

\* os.environ["AVALON_PROJECT"], ["AVALON_ASSET"], ["AVALON_SILO"] and
\* api.registered_root()
PROJECT == <<"p">>

ASSET == <<"a">>

SILO == <<"s">>

root == <<"/", "r">>

\* The publishing sessions that may run IntegrateAsset.process.
Sessions == {"s1", "s2"}

\* instance.data["subset"]
SubsetNames == << <<"m">>, <<"n">> >>

\* The staging directory each session's extractors wrote to.
StagingDirOf(p) == IF p = "s1" THEN <<"/", "t", "1">> ELSE <<"/", "t", "2">>

MetadataFile == <<".", "m", "e", "t", "a", "d", "a", "t", "a", ".", "j", "s", "o", "n">>

\* os.listdir(stagingdir) results of the full publish runs
Listings ==
    { << <<"m", ".", "m", "a">> >>,
      << <<"m", ".", "m", "a">>, <<"m", ".", "a", "b", "c">> >>,
      << MetadataFile, <<"m", ".", "m", "a">> >>,
      << <<"m", ".", "m", "a">>, <<"n", ".", "m", "a">> >>,
      << <<"m">>, <<"m", ".", "t", "a", "r", ".", "g", "z">> >> }

\* Files outside the staging directories that exist on disk.
Resources == { <<"/", "x", "/", "t", ".", "e", "x", "r">> }

\* instance.data["transfers"] as left by earlier plug-ins: nothing, a resource
\* that exists, a resource that does not exist.
PriorTransfers ==
    { <<>>,
      << << <<"/", "x", "/", "t", ".", "e", "x", "r">>, <<"/", "r", "/", "t", ".", "e", "x", "r">> >> >>,
      << << <<"/", "x", "/", "g", "o", "n", "e">>, <<"/", "r", "/", "g", "o", "n", "e">> >> >> }

\* context.data["results"]: the "success" of each earlier plug-in run
ResultLists == { <<>>, <<TRUE>>, <<TRUE, FALSE>> }

\* ------------------------------------------------------------- database

\* find_one's None
NoDoc == [_id |-> 0, type |-> "none", name |-> <<>>, parent |-> 0]

\* doc is None
IsNone(doc) == doc._id = 0

\* io.insert_one(doc): the collection with doc appended under a fresh _id
InsertOne(ds, doc) == Append(ds, [doc EXCEPT !._id = Len(ds) + 1])

RECURSIVE InsertMany(_, _)
\* io.insert_many(items), in order
InsertMany(ds, items) ==
    IF items = <<>> THEN ds ELSE InsertMany(InsertOne(ds, Head(items)), Tail(items))

\* The first document of a cursor, or None
First(found) == IF found = <<>> THEN NoDoc ELSE Head(found)

\* io.find_one({"type": "project"})
FindProject(ds) == First(SelectSeq(ds, LAMBDA d : d.type = "project"))

\* io.find_one({"type": "asset", "name": name, "parent": parent})
FindAsset(ds, name, parent) ==
    First(SelectSeq(ds, LAMBDA d : d.type = "asset" /\ d.name = name /\ d.parent = parent))

\* io.find_one({"type": "subset", "parent": parent, "name": name})
FindSubset(ds, parent, name) ==
    First(SelectSeq(ds, LAMBDA d : d.type = "subset" /\ d.parent = parent /\ d.name = name))

\* io.find_one({"_id": _id})
FindById(ds, id) == First(SelectSeq(ds, LAMBDA d : d._id = id))

\* The documents {"type": "version", "parent": parent}, in natural order
VersionsOf(ds, parent) ==
    SelectSeq(ds, LAMBDA d : d.type = "version" /\ d.parent = parent)

\* sort=[("name", -1)] then the first: a document no other exceeds in name
Latest(found) ==
    IF found = <<>> THEN NoDoc
    ELSE found[CHOOSE k \in 1..Len(found) :
                 /\ \A j \in 1..Len(found) : found[j].name <= found[k].name
                 /\ \A j \in 1..(k - 1) : found[j].name < found[k].name]

\* find_one without the parent in the filter
FindLatestVersionAnyParent(ds, parent) ==
    Latest(SelectSeq(ds, LAMBDA d : d.type = "version"))

\* io.find_one({"type": "version", "parent": parent}, sort=[("name", -1)])
FindLatestVersion(ds, parent) == Latest(VersionsOf(ds, parent))

ProjectDoc == [_id |-> 0, type |-> "project", name |-> PROJECT, parent |-> 0]

AssetDoc(parent) == [_id |-> 0, type |-> "asset", name |-> ASSET, parent |-> parent]

SubsetDoc(name, parent) == [_id |-> 0, type |-> "subset", name |-> name, parent |-> parent]

\* IntegrateAsset.create_version
create_version(subset, version_number) ==
    [_id |-> 0, type |-> "version", name |-> version_number, parent |-> subset._id]

\* The representation document of a published .ma file
MayaAscii(version_id) ==
    [_id |-> 0, type |-> "representation", name |-> <<"m", "a">>, parent |-> version_id]

RECURSIVE WithVersions(_, _, _)
\* ds after n earlier publishes of the subset: versions 1..n in publish order,
\* each followed by its representation
WithVersions(ds, subset, n) ==
    IF n = 0 THEN ds
    ELSE LET versioned == InsertOne(WithVersions(ds, subset, n - 1),
                                    create_version(subset, n))
         IN  InsertOne(versioned, MayaAscii(Len(versioned)))

\* A subset that was published held[k] times (-1: never created)
WithSubset(ds, k, held) ==
    IF held[k] < 0 THEN ds
    ELSE LET created == InsertOne(ds, SubsetDoc(SubsetNames[k], 2))
         IN  WithVersions(created, created[Len(created)], held[k])

\* The database before the publish: the project, its asset, and the subsets
\* with their versions.
InitialDocs(hasAsset, held) ==
    LET p == InsertOne(<<>>, ProjectDoc)
    IN  IF ~hasAsset THEN p
        ELSE WithSubset(WithSubset(InsertOne(p, AssetDoc(1)), 1, held), 2, held)

\* How often each subset was published before: -1 when it was never created
Histories == [1..2 -> -1..MaxExisting]

\* ------------------------------------------------------- session state

NoLocals ==
    [asset |-> NoDoc, subset |-> NoDoc, next_version |-> 0, version |-> NoDoc,
     version_id |-> 0, copied |-> 0, errno |-> ""]

\* Whether a path names an existing file: a resource, or a file of a staging
\* directory that has not been removed.
IsFile(path) ==
    \/ path \in Resources
    \/ \E d \in DOMAIN staging : \E k \in 1..Len(staging[d]) : path = Join(d, staging[d][k])

\* Every directory os.makedirs(path) creates: path and its ancestors
Ancestors(path) ==
    {Before(path, k) : k \in {j \in 2..(Len(path) + 1) : j = Len(path) + 1 \/ path[j] = "/"}}

\* The session leaves process with an exception.
Raise(p, exception) ==
    /\ pc' = [pc EXCEPT ![p] = "raised"]
    /\ raised' = [raised EXCEPT ![p] = exception]

Goto(p, label) ==
    /\ pc' = [pc EXCEPT ![p] = label]
    /\ UNCHANGED raised

\* ------------------------------------------------- IntegrateAsset.register

\* all(result["success"] for result in context.data["results"])
AllSucceeded(results) == \A k \in 1..Len(results) : results[k]

\* The atomicity guard skipped
AtomicityUnchecked(results) == TRUE

\* The atomicity assertion of register
Atomicity(results) == AllSucceeded(results)

\* register up to the first database call: the two assertions.
RegisterBegin(p) ==
    /\ pc[p] = "process"
    /\ IF ~Atomicity(context[p]) \/ instance[p].stagingDir = None
       THEN Raise(p, "AssertionError")
       ELSE Goto(p, "find_asset")
    /\ UNCHANGED <<docs, template_publish, diskVars, context, instance, locals, validatorVars>>

\* io.find_one of the project and of the asset, and the assertion on them.
RegisterFindAsset(p) ==
    /\ pc[p] = "find_asset"
    /\ LET project == FindProject(docs)
           asset   == FindAsset(docs, ASSET, project._id)
       IN  IF IsNone(project) \/ IsNone(asset)
           THEN Raise(p, "AssertionError") /\ UNCHANGED locals
           ELSE /\ Goto(p, "get_subset")
                /\ locals' = [locals EXCEPT ![p].asset = asset]
    /\ UNCHANGED <<docs, template_publish, diskVars, context, instance, validatorVars>>

\* get_subset: the find_one; a subset that exists is returned.
GetSubsetFind(p) ==
    /\ pc[p] = "get_subset"
    /\ LET subset == FindSubset(docs, locals[p].asset._id, instance[p].subset)
       IN  IF IsNone(subset)
           THEN Goto(p, "create_subset") /\ UNCHANGED locals
           ELSE /\ Goto(p, "latest_version")
                /\ locals' = [locals EXCEPT ![p].subset = subset]
    /\ UNCHANGED <<docs, template_publish, diskVars, context, instance, validatorVars>>

\* get_subset: the insert_one of the missing subset and the find_one by _id.
GetSubsetCreate(p) ==
    /\ pc[p] = "create_subset"
    /\ docs' = InsertOne(docs, SubsetDoc(instance[p].subset, locals[p].asset._id))
    /\ locals' = [locals EXCEPT ![p].subset = FindById(docs', Len(docs'))]
    /\ Goto(p, "latest_version")
    /\ UNCHANGED <<template_publish, diskVars, context, instance, validatorVars>>

\* next_version = 1; if latest_version is not None: next_version += name
NextVersion(latest_version) ==
    IF ~IsNone(latest_version) THEN 1 + latest_version.name ELSE 1

\* The check of the assumed version left out
AssumedVersionUnchecked(assumed_version, next_version) == TRUE

\* not (assumed_version != next_version)
AssumedVersionMatches(assumed_version, next_version) ==
    assumed_version = next_version

\* The find_one of the latest version, next_version, and the check against
\* the assumed version.
RegisterNextVersion(p) ==
    /\ pc[p] = "latest_version"
    /\ LET latest_version == FindLatestVersion(docs, locals[p].subset._id)
           next_version   == NextVersion(latest_version)
       IN  /\ locals' = [locals EXCEPT ![p].next_version = next_version]
           /\ IF AssumedVersionMatches(instance[p].assumedVersion, next_version)
              THEN Goto(p, "insert_version")
              ELSE Raise(p, "AttributeError")
    /\ UNCHANGED <<docs, template_publish, diskVars, context, instance, validatorVars>>

\* The insert with the number taken from the database in the same step
RegisterInsertVersionNumberedOnInsert(p) ==
    /\ pc[p] = "insert_version"
    /\ LET latest_version == FindLatestVersion(docs, locals[p].subset._id)
           version == create_version(locals[p].subset, NextVersion(latest_version))
       IN  /\ docs' = InsertOne(docs, version)
           /\ locals' = [locals EXCEPT ![p].version = version,
                                       ![p].version_id = Len(docs')]
    /\ Goto(p, "assemble")
    /\ UNCHANGED <<template_publish, diskVars, context, instance, validatorVars>>

\* create_version and io.insert_one(version).inserted_id
RegisterInsertVersion(p) ==
    /\ pc[p] = "insert_version"
    /\ LET version == create_version(locals[p].subset, locals[p].next_version)
       IN  /\ docs' = InsertOne(docs, version)
           /\ locals' = [locals EXCEPT ![p].version = version,
                                       ![p].version_id = Len(docs')]
    /\ Goto(p, "assemble")
    /\ UNCHANGED <<template_publish, diskVars, context, instance, validatorVars>>

\* ext[1:]
DropFirst(ext) == IF ext = <<>> THEN <<>> ELSE Tail(ext)

\* template_data with "representation" set for one file
TemplateData(subset, version, fname) ==
    [root |-> root, project |-> PROJECT, silo |-> SILO, asset |-> ASSET,
     subset |-> subset.name, version |-> version.name,
     representation |-> DropFirst(Splitext(fname)[2])]

\* The destination without the special case of .metadata.json
DestinationPlain(stagingdir, fname, subset, version) ==
    Format(template_publish, TemplateData(subset, version, fname))

\* dst of one staged file
Destination(stagingdir, fname, subset, version) ==
    LET dst == Format(template_publish, TemplateData(subset, version, fname))
    IN  IF fname = MetadataFile THEN Join(Dirname(dst), fname) ELSE dst

\* The [src, dst] pair appended for one staged file
Transfer(stagingdir, fname, subset, version) ==
    <<Join(stagingdir, fname), Destination(stagingdir, fname, subset, version)>>

\* The representation document built for one staged file
Representation(fname, version_id) ==
    [_id |-> 0, type |-> "representation", name |-> DropFirst(Splitext(fname)[2]),
     parent |-> version_id]

\* The loop of register over os.listdir(stagingdir): one transfer appended and
\* one representation built per file; the representations are stored.
RegisterAssemble(p) ==
    /\ pc[p] = "assemble"
    /\ LET stagingdir == instance[p].stagingDir
       IN  IF stagingdir \notin DOMAIN staging
           THEN Raise(p, "OSError") /\ UNCHANGED instance
           ELSE LET staging_content == staging[stagingdir]
                    n == Len(staging_content)
                IN  /\ instance' =
                         [instance EXCEPT
                            ![p].transfers = @ \o
                               [k \in 1..n |->
                                  Transfer(stagingdir, staging_content[k],
                                           locals[p].subset, locals[p].version)],
                            ![p].representations =
                               [k \in 1..n |->
                                  Representation(staging_content[k], locals[p].version_id)]]
                    /\ Goto(p, "integrate")
    /\ UNCHANGED <<docs, template_publish, diskVars, context, locals, validatorVars>>

\* ------------------------------------------------ IntegrateAsset.integrate

\* The loop over the transfers ending one pair early
AfterCopySkipsLast(p, copied) ==
    IF copied + 1 < Len(instance[p].transfers) THEN "makedirs" ELSE "rmtree"

\* Where integrate continues after `copied` transfers
AfterCopy(p, copied) ==
    IF copied < Len(instance[p].transfers) THEN "makedirs" ELSE "rmtree"

\* io.insert_many(representations)
IntegrateInsertMany(p) ==
    /\ pc[p] = "integrate"
    /\ docs' = InsertMany(docs, instance[p].representations)
    /\ Goto(p, AfterCopy(p, 0))
    /\ UNCHANGED <<template_publish, diskVars, context, instance, locals, validatorVars>>

\* What os.makedirs(dirname) can do: "" is success; EEXIST when the directory
\* is there; ENOENT for the empty path; otherwise the disk may refuse (EACCES).
MakedirsOutcomes(dirname) ==
    IF dirname = <<>> THEN {"ENOENT"}
    ELSE IF dirname \in dirs THEN {"EEXIST"}
    ELSE {"", "EACCES"}

\* The except clause passing on every OSError
PassesAny(errno) == TRUE

\* except OSError as e: pass if e.errno == errno.EEXIST, else raise
Passes(errno) == errno = "EEXIST"

\* copy_file: os.makedirs(dirname) and its except clause
CopyFileMakedirs(p) ==
    /\ pc[p] = "makedirs"
    /\ LET dst == instance[p].transfers[locals[p].copied + 1][2]
           dirname == Dirname(dst)
       IN  \E e \in MakedirsOutcomes(dirname) :
              /\ locals' = [locals EXCEPT ![p].errno = e]
              /\ dirs' = IF e = "" THEN dirs \cup Ancestors(dirname) ELSE dirs
              /\ IF e = "" \/ Passes(e)
                 THEN Goto(p, "shutil_copy")
                 ELSE Raise(p, "OSError")
    /\ UNCHANGED <<docs, template_publish, library, staging, context, instance, validatorVars>>

\* shutil.copy with the staging directory removed when the copy fails
CopyFileCopyCleaningUp(p) ==
    /\ pc[p] = "shutil_copy"
    /\ LET src == instance[p].transfers[locals[p].copied + 1][1]
           dst == instance[p].transfers[locals[p].copied + 1][2]
       IN  IF IsFile(src)
           THEN /\ library' = (dst :> src) @@ library
                /\ locals' = [locals EXCEPT ![p].copied = @ + 1]
                /\ Goto(p, AfterCopy(p, locals[p].copied + 1))
                /\ UNCHANGED staging
           ELSE /\ Raise(p, "IOError")
                /\ staging' = [d \in DOMAIN staging \ {instance[p].stagingDir} |-> staging[d]]
                /\ UNCHANGED <<library, locals>>
    /\ UNCHANGED <<docs, template_publish, dirs, context, instance, validatorVars>>

\* copy_file: shutil.copy(src, dst)
CopyFileCopy(p) ==
    /\ pc[p] = "shutil_copy"
    /\ LET src == instance[p].transfers[locals[p].copied + 1][1]
           dst == instance[p].transfers[locals[p].copied + 1][2]
       IN  IF IsFile(src)
           THEN /\ library' = (dst :> src) @@ library
                /\ locals' = [locals EXCEPT ![p].copied = @ + 1]
                /\ Goto(p, AfterCopy(p, locals[p].copied + 1))
           ELSE /\ Raise(p, "IOError")
                /\ UNCHANGED <<library, locals>>
    /\ UNCHANGED <<docs, template_publish, dirs, staging, context, instance, validatorVars>>

\* process: shutil.rmtree(stagingdir)
ProcessRmtree(p) ==
    /\ pc[p] = "rmtree"
    /\ LET stagingdir == instance[p].stagingDir
       IN  IF stagingdir \in DOMAIN staging
           THEN /\ staging' = [d \in DOMAIN staging \ {stagingdir} |-> staging[d]]
                /\ Goto(p, "done")
           ELSE /\ Raise(p, "OSError")
                /\ UNCHANGED staging
    /\ UNCHANGED <<docs, template_publish, dirs, library, context, instance, locals, validatorVars>>

\* One statement of IntegrateAsset.process in session p
Step(p) ==
    \/ RegisterBegin(p)
    \/ RegisterFindAsset(p)
    \/ GetSubsetFind(p)
    \/ GetSubsetCreate(p)
    \/ RegisterNextVersion(p)
    \/ RegisterInsertVersion(p)
    \/ RegisterAssemble(p)
    \/ IntegrateInsertMany(p)
    \/ CopyFileMakedirs(p)
    \/ CopyFileCopy(p)
    \/ ProcessRmtree(p)

\* ----------------------------------------------------------- publish runs

\* instance.data of a session that publishes
InstanceData(p) ==
    [subset : Range(SubsetNames),
     assumedVersion : 1..(MaxExisting + 2),
     stagingDir : {StagingDirOf(p), None},
     transfers : PriorTransfers,
     representations : {<<>>}]

IdleInstance ==
    [subset |-> SubsetNames[1], assumedVersion |-> 1, stagingDir |-> None,
     transfers |-> <<>>, representations |-> <<>>]

ValidatorIdle ==
    /\ members = <<>>
    /\ invalid = <<>>
    /\ vpc = "off"

\* The library root exists and is empty; nothing was raised.
InitDisk ==
    /\ dirs = Ancestors(root)
    /\ library = <<>>

\* One session publishes one instance.
Init ==
    /\ \E hasAsset \in BOOLEAN, held \in Histories :
          /\ hasAsset \/ \A k \in 1..2 : held[k] = -1
          /\ docs = InitialDocs(hasAsset, held)
    /\ template_publish \in Templates
    /\ InitDisk
    /\ staging \in [{StagingDirOf("s1")} -> Listings]
    /\ context \in {[p \in Sessions |-> IF p = "s1" THEN r ELSE <<>>] : r \in ResultLists}
    /\ instance \in {[p \in Sessions |-> IF p = "s1" THEN d ELSE IdleInstance] :
                        d \in InstanceData("s1")}
    /\ locals = [p \in Sessions |-> NoLocals]
    /\ pc = [p \in Sessions |-> IF p = "s1" THEN "process" ELSE "off"]
    /\ raised = [p \in Sessions |-> ""]
    /\ ValidatorIdle

Next == Step("s1")

Spec == Init /\ [][Next]_vars

\* Two sessions publish at once, each its own instance from its own staging
\* directory, to the same database and library.
InitConcurrent ==
    /\ \E held \in Histories : docs = InitialDocs(TRUE, held)
    /\ template_publish = TemplateFile
    /\ InitDisk
    /\ staging = [d \in {StagingDirOf(p) : p \in Sessions} |-> << <<"m", ".", "m", "a">> >>]
    /\ context = [p \in Sessions |-> <<TRUE>>]
    /\ \E subset \in [Sessions -> Range(SubsetNames)],
          assumed \in [Sessions -> 1..(MaxExisting + 2)] :
          instance = [p \in Sessions |->
                        [subset |-> subset[p], assumedVersion |-> assumed[p],
                         stagingDir |-> StagingDirOf(p), transfers |-> <<>>,
                         representations |-> <<>>]]
    /\ locals = [p \in Sessions |-> NoLocals]
    /\ pc = [p \in Sessions |-> "process"]
    /\ raised = [p \in Sessions |-> ""]
    /\ ValidatorIdle

NextConcurrent == \E p \in Sessions : Step(p)

SpecConcurrent == InitConcurrent /\ [][NextConcurrent]_vars

\* ------------------------------------------------------ register alone

\* The characters staged file names are drawn from
Alphabet == {".", "a"}

\* Every file name of 1..MaxNameLen characters a directory listing can hold
\* ("." and ".." are never listed), and .metadata.json
FileNames ==
    (UNION {[1..n -> Alphabet] : n \in 1..MaxNameLen} \ {<<".">>, <<".", ".">>})
    \cup {MetadataFile}

\* os.listdir of a staging directory of at most two files
AllListings ==
    {<<>>} \cup {<<f>> : f \in FileNames}
           \cup {pair \in FileNames \X FileNames : pair[1] # pair[2]}

\* One session runs register on any small staging directory; the assumed
\* version is the one the database will give.
InitRegister ==
    /\ \E k \in -1..MaxExisting :
          /\ docs = InitialDocs(TRUE, [j \in 1..2 |-> IF j = 1 THEN k ELSE -1])
          /\ \E prior \in PriorTransfers :
                instance = [p \in Sessions |->
                   IF p = "s1"
                   THEN [subset |-> SubsetNames[1],
                         assumedVersion |-> IF k < 0 THEN 1 ELSE k + 1,
                         stagingDir |-> StagingDirOf(p), transfers |-> prior,
                         representations |-> <<>>]
                   ELSE IdleInstance]
    /\ template_publish \in Templates
    /\ InitDisk
    /\ staging \in [{StagingDirOf("s1")} -> AllListings]
    /\ context = [p \in Sessions |-> <<>>]
    /\ locals = [p \in Sessions |-> NoLocals]
    /\ pc = [p \in Sessions |-> IF p = "s1" THEN "process" ELSE "off"]
    /\ raised = [p \in Sessions |-> ""]
    /\ ValidatorIdle

NextRegister ==
    \/ RegisterBegin("s1")
    \/ RegisterFindAsset("s1")
    \/ GetSubsetFind("s1")
    \/ GetSubsetCreate("s1")
    \/ RegisterNextVersion("s1")
    \/ RegisterInsertVersion("s1")
    \/ RegisterAssemble("s1")

SpecRegister == InitRegister /\ [][NextRegister]_vars

\* ------------------------------------------------- ValidateNodeIdsUnique

\* What lib.get_id returns for a node: an id, or nothing (None or "", both
\* false in `if not object_id`), written <<>>.
NodeIds == {<<>>, <<"x">>, <<"y">>}

\* lib.get_id(member): the id of the k-th member of the instance
get_id(k) == members[k]

\* ids[object_id] after the first loop: the members carrying the id, in
\* instance order; members without an id are skipped.
Ids(object_id) ==
    IF object_id = <<>> THEN <<>>
    ELSE SelectSeq([k \in 1..Len(members) |-> k], LAMBDA k : get_id(k) = object_id)

\* The keys of the defaultdict
IdKeys == {object_id \in NodeIds : Ids(object_id) # <<>>}

\* The orders ids.iteritems() may yield the keys in
KeyOrders ==
    {order \in [1..Cardinality(IdKeys) -> IdKeys] :
        \A a, b \in 1..Cardinality(IdKeys) : a # b => order[a] # order[b]}

\* Every group taken as invalid
AtLeastOne(group) == Len(group) >= 1

\* len(members) > 1
MoreThanOne(group) == Len(group) > 1

\* The second loop: the groups of more than one member, concatenated
Extended(order) ==
    Concat([k \in 1..Len(order) |->
              IF MoreThanOne(Ids(order[k])) THEN Ids(order[k]) ELSE <<>>])

\* ValidateNodeIdsUnique.get_invalid
GetInvalid ==
    /\ vpc = "get_invalid"
    /\ \E order \in KeyOrders : invalid' = Extended(order)
    /\ vpc' = "got"
    /\ UNCHANGED <<docs, template_publish, diskVars, context, instance, locals, pc, raised, members>>

\* ValidateNodeIdsUnique.process: `if invalid: raise RuntimeError`
ValidateProcess ==
    /\ vpc = "got"
    /\ vpc' = IF invalid # <<>> THEN "RuntimeError" ELSE "passed"
    /\ UNCHANGED <<docs, template_publish, diskVars, context, instance, locals, pc, raised,
                   members, invalid>>

\* The validator runs on an instance of at most MaxMembers nodes.
InitValidate ==
    /\ docs = <<>>
    /\ template_publish = TemplateFile
    /\ InitDisk
    /\ staging = <<>>
    /\ context = [p \in Sessions |-> <<>>]
    /\ instance = [p \in Sessions |-> IdleInstance]
    /\ locals = [p \in Sessions |-> NoLocals]
    /\ pc = [p \in Sessions |-> "off"]
    /\ raised = [p \in Sessions |-> ""]
    /\ members \in UNION {[1..n -> NodeIds] : n \in 0..MaxMembers}
    /\ invalid = <<>>
    /\ vpc = "get_invalid"

NextValidate == GetInvalid \/ ValidateProcess

SpecValidate == InitValidate /\ [][NextValidate]_vars

\* ------------------------------------------------------------ properties

\* The positions in docs of the version documents under a subset id.
VersionPositions(parent) ==
    {k \in 1..Len(docs) : docs[k].type = "version" /\ docs[k].parent = parent}

\* The positions in docs of the representation documents under a version id.
RepresentationPositions(parent) ==
    {k \in 1..Len(docs) : docs[k].type = "representation" /\ docs[k].parent = parent}

Max(S) == CHOOSE x \in S : \A y \in S : y <= x

\* The session has inserted its version document.
HasInsertedVersion(p) == locals[p].version_id # 0

\* C1: the version document register inserts for a subset is numbered 1 when
\* the database holds no other version document under that subset, and
\* otherwise one more than the highest number among them; version documents
\* under other subsets play no part.
C1_NextVersionNumber ==
    \A p \in Sessions :
        HasInsertedVersion(p) =>
            LET new    == docs[locals[p].version_id]
                others == VersionPositions(locals[p].subset._id) \ {locals[p].version_id}
            IN  /\ new.type = "version"
                /\ new.parent = locals[p].subset._id
                /\ locals[p].subset.type = "subset"
                /\ locals[p].subset.name = instance[p].subset
                /\ new.name = IF others = {} THEN 1
                              ELSE 1 + Max({docs[k].name : k \in others})

\* C1 witness: a second or later version was inserted while another subset
\* holds a version numbered at least as high as the new one.
C1_Witness ==
    \E p \in Sessions :
        /\ HasInsertedVersion(p)
        /\ docs[locals[p].version_id].name >= 2
        /\ \E k \in 1..Len(docs) :
              /\ docs[k].type = "version"
              /\ docs[k].parent # locals[p].subset._id
              /\ docs[k].name >= docs[locals[p].version_id].name

\* Some earlier plug-in result of the session's context has success false.
SomeResultFailed(p) == \E k \in 1..Len(context[p]) : ~context[p][k]

\* C3: when a result of the context has failed, every step leaves the session
\* at the start of process or raised with AssertionError, with nothing read
\* from the database into register's locals, no document inserted, no transfer
\* appended, nothing copied and no staging directory removed.
C3_AtomicityGuard ==
    [][\A p \in Sessions :
          SomeResultFailed(p) =>
             /\ pc'[p] \in {"process", "raised"}
             /\ pc'[p] = "raised" => raised'[p] = "AssertionError"
             /\ locals'[p].asset._id = 0
             /\ locals'[p].subset._id = 0
             /\ locals'[p].next_version = 0
             /\ locals'[p].version_id = 0
             /\ Len(docs') = Len(docs)
             /\ instance'[p] = instance[p]
             /\ library' = library
             /\ dirs' = dirs
             /\ staging' = staging]_vars

\* C3 witness: the guard fired for an instance that was otherwise complete:
\* its staging directory is set and the asset is in the database.
C3_Witness ==
    \E p \in Sessions :
        /\ SomeResultFailed(p)
        /\ pc[p] = "raised"
        /\ raised[p] = "AssertionError"
        /\ instance[p].stagingDir # None
        /\ FindAsset(docs, ASSET, 1)._id # 0

\* The source the library holds at the destination of the k-th transfer after
\* the first n transfers were copied in list order: that of the last of them
\* with this destination.
LastCopied(transfers, n, k) ==
    transfers[Max({j \in 1..n : transfers[j][2] = transfers[k][2]})][1]

\* The first n transfers, and no later one, have been copied in list order.
CopiedInOrder(transfers, n) ==
    /\ \A k \in 1..n :
          /\ transfers[k][2] \in DOMAIN library
          /\ library[transfers[k][2]] = LastCopied(transfers, n, k)
    /\ \A k \in (n + 1)..Len(transfers) :
          transfers[k][2] \in DOMAIN library =>
             \E j \in 1..n : transfers[j][2] = transfers[k][2]
    /\ DOMAIN library = {transfers[k][2] : k \in 1..n}

\* The representations of the instance are in the database, in order, right
\* after their version document and under its id.
RepresentationsInserted(p) ==
    LET id   == locals[p].version_id
        reps == instance[p].representations
    IN  /\ Cardinality(RepresentationPositions(id)) = Len(reps)
        /\ \A k \in 1..Len(reps) :
              /\ id + k \in RepresentationPositions(id)
              /\ docs[id + k].name = reps[k].name

\* The version document of the session is in the database under its subset.
VersionInserted(p) ==
    /\ HasInsertedVersion(p)
    /\ docs[locals[p].version_id].type = "version"
    /\ docs[locals[p].version_id].parent = locals[p].subset._id
    /\ docs[locals[p].version_id].name = locals[p].next_version
    /\ locals[p].subset.name = instance[p].subset

\* C4: when process has done everything (all that is left, or nothing, is the
\* removal of the staging directory), the database holds exactly one version
\* document of the new number under the instance's subset, one representation
\* document per staged file, each under that version's id, and every transfer
\* has been copied to its destination in list order; when process has
\* returned, the staging directory is gone.
C4_ProcessCompleted ==
    \A p \in Sessions :
        pc[p] \in {"rmtree", "done"} =>
            /\ VersionInserted(p)
            /\ Cardinality({k \in VersionPositions(locals[p].subset._id) :
                               docs[k].name = locals[p].next_version}) = 1
            /\ RepresentationsInserted(p)
            /\ Cardinality({k \in 1..Len(instance[p].transfers) :
                               Dirname(instance[p].transfers[k][1]) = instance[p].stagingDir})
                 = Len(instance[p].representations)
            /\ locals[p].copied = Len(instance[p].transfers)
            /\ CopiedInOrder(instance[p].transfers, Len(instance[p].transfers))
            /\ pc[p] = "rmtree" =>
                  /\ instance[p].stagingDir \in DOMAIN staging
                  /\ Len(staging[instance[p].stagingDir]) = Len(instance[p].representations)
            /\ pc[p] = "done" => instance[p].stagingDir \notin DOMAIN staging

\* C4 witness: process returned after publishing two staged files and one
\* transfer an earlier plug-in had queued.
C4_Witness ==
    \E p \in Sessions :
        /\ pc[p] = "done"
        /\ Len(instance[p].representations) = 2
        /\ Len(instance[p].transfers) = 3

\* The next version register computed differs from the assumed version.
VersionMismatch(p) ==
    /\ locals[p].next_version # 0
    /\ instance[p].assumedVersion # locals[p].next_version

\* C5: once the next version is computed and differs from the assumed one,
\* the session has raised AttributeError: it inserted no version (every
\* version of the subset is numbered below the next version) and no
\* representation (the last document is no version, and there are as many
\* representations as versions, one per earlier publish), appended no
\* transfer, copied nothing and kept the staging directory.
C5_AssumedVersionMismatch ==
    \A p \in Sessions :
        VersionMismatch(p) =>
            /\ pc[p] = "raised"
            /\ raised[p] = "AttributeError"
            /\ locals[p].version_id = 0
            /\ \A k \in VersionPositions(locals[p].subset._id) :
                  docs[k].name < locals[p].next_version
            /\ docs[Len(docs)].type # "version"
            /\ Cardinality({k \in 1..Len(docs) : docs[k].type = "representation"})
                 = Cardinality({k \in 1..Len(docs) : docs[k].type = "version"})
            /\ Cardinality({k \in 1..Len(docs) : docs[k].type = "subset"}) <= 2
            /\ instance[p].transfers \in PriorTransfers
            /\ instance[p].representations = <<>>
            /\ library = <<>>
            /\ dirs = Ancestors(root)
            /\ instance[p].stagingDir \in DOMAIN staging

\* C5 witness: the mismatch was raised right after get_subset created the
\* subset "m", behind the documents of the subset "n".
C5_Witness ==
    \E p \in Sessions :
        /\ VersionMismatch(p)
        /\ raised[p] = "AttributeError"
        /\ locals[p].subset._id = Len(docs)
        /\ locals[p].subset.name = <<"m">>
        /\ Len(docs) > 3
        /\ docs[3].type = "subset"

\* The transfer copy_file is working on, or worked on last.
CurrentTransfer(p) ==
    instance[p].transfers[IF pc[p] \in {"shutil_copy", "raised"}
                          THEN locals[p].copied + 1 ELSE locals[p].copied]

\* C7: shutil.copy is reached only after makedirs succeeded or failed with
\* EEXIST; after EEXIST the session never leaves with the OSError, and once
\* copy_file returned the destination holds the source; after any other
\* makedirs error the session has raised OSError and the destination was
\* not written.
C7_CopyFileMakedirs ==
    \A p \in Sessions :
        /\ pc[p] = "shutil_copy" => locals[p].errno \in {"", "EEXIST"}
        /\ locals[p].errno = "EEXIST" =>
              /\ pc[p] \in {"shutil_copy", "makedirs", "rmtree", "done", "raised"}
              /\ pc[p] = "raised" =>
                    /\ raised[p] = "IOError"
                    /\ ~IsFile(CurrentTransfer(p)[1])
              /\ pc[p] \in {"makedirs", "rmtree", "done"} =>
                    /\ locals[p].copied >= 1
                    /\ CurrentTransfer(p)[2] \in DOMAIN library
                    /\ library[CurrentTransfer(p)[2]] = CurrentTransfer(p)[1]
        /\ locals[p].errno \notin {"", "EEXIST"} =>
              /\ pc[p] = "raised"
              /\ raised[p] = "OSError"
              /\ CurrentTransfer(p)[2] \notin DOMAIN library
              /\ Dirname(CurrentTransfer(p)[2]) \notin dirs

\* C7 witness: makedirs failed with EEXIST for a staged file and the file
\* was copied.
C7_Witness ==
    \E p \in Sessions :
        /\ locals[p].errno = "EEXIST"
        /\ pc[p] = "rmtree"
        /\ Dirname(CurrentTransfer(p)[1]) = instance[p].stagingDir
        /\ library[CurrentTransfer(p)[2]] = CurrentTransfer(p)[1]

\* C8: the steps of one process run happen in the order version document,
\* representation documents, copies in list order, removal of the staging
\* directory; and when a copy raises, the version and representation
\* documents stay in the database, exactly the transfers before the failing
\* one are in the library, and the staging directory is still there.
C8_OrderAndNoRollback ==
    \A p \in Sessions :
        LET id        == locals[p].version_id
            transfers == instance[p].transfers
            copying   == pc[p] \in {"makedirs", "shutil_copy", "rmtree", "done"}
            failed    == pc[p] = "raised" /\ raised[p] \in {"OSError", "IOError"}
        IN  /\ RepresentationPositions(id) # {} =>
                 /\ VersionInserted(p)
                 /\ \A k \in RepresentationPositions(id) : k > id
            /\ instance[p].representations # <<>> => VersionInserted(p)
            /\ (copying \/ failed) =>
                 /\ VersionInserted(p)
                 /\ RepresentationsInserted(p)
                 /\ CopiedInOrder(transfers, locals[p].copied)
            /\ (pc[p] # "off" /\ ~(copying \/ failed)) => library = <<>>
            /\ (pc[p] # "off" /\ instance[p].stagingDir \notin DOMAIN staging) =>
                 \/ instance[p].stagingDir = None
                 \/ pc[p] = "done" /\ locals[p].copied = Len(transfers)
            /\ failed =>
                 /\ locals[p].copied < Len(transfers)
                 /\ instance[p].stagingDir \in DOMAIN staging

\* C8 witness: the second transfer failed after the first was copied.
C8_Witness ==
    \E p \in Sessions :
        /\ pc[p] = "raised"
        /\ raised[p] \in {"OSError", "IOError"}
        /\ locals[p].copied >= 1
        /\ Len(instance[p].transfers) > locals[p].copied + 1

\* C6: two sessions that computed the same next version for the same subset
\* document (each read the latest version before the other inserted) and
\* both inserted, have put two distinct version documents of equal parent and
\* equal number into the database.
C6_NoConcurrencyControl ==
    \A p, q \in Sessions :
        ( /\ p # q
          /\ HasInsertedVersion(p)
          /\ HasInsertedVersion(q)
          /\ locals[p].subset._id = locals[q].subset._id
          /\ locals[p].next_version = locals[q].next_version )
        => /\ locals[p].version_id # locals[q].version_id
           /\ docs[locals[p].version_id].type = "version"
           /\ docs[locals[q].version_id].type = "version"
           /\ docs[locals[p].version_id].parent = docs[locals[q].version_id].parent
           /\ docs[locals[p].version_id].name = docs[locals[q].version_id].name
           /\ instance[p].assumedVersion = instance[q].assumedVersion

\* C6 witness: the database holds two version documents of equal parent and
\* number, inserted by the two sessions.
C6_Witness ==
    \E p, q \in Sessions :
        /\ p # q
        /\ HasInsertedVersion(p)
        /\ HasInsertedVersion(q)
        /\ \E j, k \in 1..Len(docs) :
              /\ j # k
              /\ j = locals[p].version_id
              /\ k = locals[q].version_id
              /\ docs[j].type = "version"
              /\ docs[k].type = "version"
              /\ docs[j].parent = docs[k].parent
              /\ docs[j].name = docs[k].name

\* The extension of a file name without its dot: what follows the last dot,
\* when a character other than a dot comes before that dot.
ExtensionOf(fname) ==
    LET last == {k \in 1..Len(fname) :
                    /\ fname[k] = "."
                    /\ \A j \in (k + 1)..Len(fname) : fname[j] # "."
                    /\ \E j \in 1..(k - 1) : fname[j] # "."}
    IN  IF last = {} THEN <<>> ELSE From(fname, 1 + CHOOSE k \in last : TRUE)

\* A version number below 1000 in three digits
ThreeDigits(n) == <<Digit(n \div 100), Digit((n \div 10) % 10), Digit(n % 10)>>

\* The publish directory of a version of a subset
VersionDirectory(subset, version) ==
    root \o <<"/">> \o PROJECT \o <<"/">> \o SILO \o <<"/">> \o ASSET
         \o <<"/", "p", "u", "b", "l", "i", "s", "h", "/">> \o subset
         \o <<"/", "v">> \o ThreeDigits(version) \o <<"/">>

\* The destination of a staged file as the two templates spell it out
ExpectedDestination(fname, subset, version) ==
    LET ext == ExtensionOf(fname)
    IN  VersionDirectory(subset, version) \o
        ( IF template_publish = TemplateFile
          THEN IF fname = MetadataFile THEN MetadataFile
               ELSE subset \o <<".">> \o ext
          ELSE IF fname = MetadataFile THEN ext \o <<"/">> \o MetadataFile
               ELSE ext \o <<"/">> \o subset )

\* C9: after register, the transfers are the earlier ones followed by one
\* [src, dst] pair per staged file in listing order, and the representations
\* are one per staged file in the same order, named by the file's extension
\* without the dot and parented to the new version; dst is the publish
\* template with that extension as representation, except that .metadata.json
\* goes under its own name into the directory of that path; staged files of
\* different extensions get different destinations.
C9_TransfersAndRepresentations ==
    \A p \in Sessions :
        pc[p] = "integrate" =>
            LET listing   == staging[instance[p].stagingDir]
                n         == Len(listing)
                transfers == instance[p].transfers
                reps      == instance[p].representations
                first     == Len(transfers) - n
            IN  /\ Len(reps) = n
                /\ first >= 0
                /\ SubSeq(transfers, 1, first) \in PriorTransfers
                /\ \A k \in 1..n :
                      /\ transfers[first + k][1]
                           = instance[p].stagingDir \o <<"/">> \o listing[k]
                      /\ transfers[first + k][2]
                           = ExpectedDestination(listing[k], instance[p].subset,
                                                 locals[p].next_version)
                      /\ reps[k].type = "representation"
                      /\ reps[k].name = ExtensionOf(listing[k])
                      /\ reps[k].parent = locals[p].version_id
                /\ \A j, k \in 1..n :
                      ExtensionOf(listing[j]) # ExtensionOf(listing[k]) =>
                         transfers[first + j][2] # transfers[first + k][2]

\* C9 witness: register ran on .metadata.json and a file of another
\* extension, with a transfer already queued.
C9_Witness ==
    \E p \in Sessions :
        /\ pc[p] = "integrate"
        /\ Len(instance[p].transfers) = 3
        /\ staging[instance[p].stagingDir][1] = MetadataFile
        /\ ExtensionOf(staging[instance[p].stagingDir][2]) = <<"a">>

\* The members whose id is set and is the id of another member as well.
Duplicates ==
    {k \in 1..Len(members) :
        /\ members[k] # <<>>
        /\ \E j \in 1..Len(members) : j # k /\ members[j] = members[k]}

====
